---- MODULE Spec2Model ----
(***************************************************************************)
(* Track search and matching engine of recotine: the search client         *)
(* (NicotineAPI.search / search_and_filter), the track search orchestrator *)
(* (TrackSearcher.search_track), the best-result selector                  *)
(* (NicotineAPI.download_best_result), the playlist batch driver           *)
(* (PlaylistSearcher.search_playlist / search_all_playlists) and the       *)
(* download wait (NicotineAPI.wait_for_downloads).                         *)
(*                                                                         *)
(* Text that the code concatenates or scans (titles, artists, queries,     *)
(* file names, paths, extensions) is a sequence of one-character strings,  *)
(* so that formatting, lower-casing and substring tests are computed.      *)
(* Similarity is kept in tenths (0.8 is 8); file sizes are in bytes.       *)
(***************************************************************************)
EXTENDS Integers, Sequences, FiniteSets, TLC

VARIABLES
    config,          \* RecotineConfig: the npp.search.* settings of the run
    download,        \* the download argument of search_all_playlists
    nPlaylists,      \* len(playlists) found by get_available_playlists
    plIdx,           \* position of the for loop over playlists (1-based)
    nTracks,         \* len(playlist.tracks) of the playlist being processed
    i,               \* enumerate(playlist.tracks, 1) index of the current track
    track,           \* the Track being processed
    pc,              \* control point of the run
    queries,         \* queries[:max_attempts] of the current search_track call
    attempt,         \* index of the next query of the fallback loop
    all_results,     \* accumulated result pool of the current search_track call
    search_results,  \* value returned by search_track to the batch driver
    stats,           \* PlaylistSearcher.stats
    attempts,        \* history: the attempts of the current search_track call
    trackLog,        \* history: one entry per track the driver finished
    requests,        \* history: download requests sent for the current track,
                     \* with the result chosen and the result reported
    delays,          \* history: time.sleep(1) calls in the current playlist
    expected,        \* history: tracks of the playlists whose track loop began
    interrupted,     \* a KeyboardInterrupt reached search_all_playlists
    unavailable,     \* history: an availability check of the run failed
    summary,         \* print_final_summary was called
    timeout,         \* the timeout argument of wait_for_downloads
    check_interval,  \* the check_interval argument of wait_for_downloads
    cleanup_when_done, \* the cleanup_when_done argument of wait_for_downloads
    elapsed,         \* time.time() - start_time, in seconds
    polls,           \* history: the get_active_downloads calls of the loop
    cleans,          \* history: clean requests sent by wait_for_downloads
    final_downloads  \* <<>> or <<the list the final get_downloads returned>>

vars == <<config, download, nPlaylists, plIdx, nTracks, i, track, pc, queries,
          attempt, all_results, search_results, stats, attempts, trackLog,
          requests, delays, expected, interrupted, unavailable, summary,
          timeout, check_interval, cleanup_when_done, elapsed, polls, cleans,
          final_downloads>>

\* the state of a wait_for_downloads call
waitVars == <<timeout, check_interval, cleanup_when_done, elapsed, polls,
              cleans, final_downloads>>

\* An Optional[int] is a sequence: <<>> is None and <<v>> is the integer v.
None == <<>>
Some(v) == <<v>>
Val(x) == x[1]

(***************************************************************************)
(* Bounds of the model.                                                    *)
(***************************************************************************)
MaxBatch == 2        \* longest raw result list one backend response carries
MaxTracks == 2       \* most tracks processed in one run
MaxPlaylists == 2    \* most playlist files in one run

(***************************************************************************)
(* Python helpers.                                                         *)
(***************************************************************************)
\* bool(x) for an Optional[int]
Truthy(x) == x # None /\ Val(x) # 0

\* x or 0
OrZero(x) == IF x = None THEN 0 ELSE Val(x)

\* str.lower(), character by character
LowerChar(c) ==
    CASE c = "A" -> "a"
      [] c = "T" -> "t"
      [] c = "M" -> "m"
      [] c = "P" -> "p"
      [] OTHER -> c

Lower(s) == [k \in DOMAIN s |-> LowerChar(s[k])]

\* `term in text` for strings
Contains(text, term) ==
    \E k \in 0..(Len(text) - Len(term)) :
        \A j \in 1..Len(term) : text[k + j] = term[j]

\* sep.join(parts)
RECURSIVE Join(_, _)
Join(sep, parts) ==
    IF parts = <<>> THEN <<>>
    ELSE IF Len(parts) = 1 THEN parts[1]
    ELSE parts[1] \o sep \o Join(sep, Tail(parts))

\* seq[:n] for any integer n (a negative n counts from the end)
Slice(seq, n) ==
    IF n >= 0
    THEN SubSeq(seq, 1, IF n < Len(seq) THEN n ELSE Len(seq))
    ELSE SubSeq(seq, 1, IF Len(seq) + n > 0 THEN Len(seq) + n ELSE 0)

\* ord(c) for the characters the model uses
Ord(c) ==
    CASE c = " " -> 32
      [] c = "\"" -> 34
      [] c = "," -> 44
      [] c = "1" -> 49
      [] c = "2" -> 50
      [] c = "3" -> 51
      [] c = "A" -> 65
      [] c = "M" -> 77
      [] c = "P" -> 80
      [] c = "T" -> 84
      [] c = "a" -> 97
      [] c = "b" -> 98
      [] c = "m" -> 109
      [] c = "p" -> 112
      [] c = "t" -> 116
      [] c = "u" -> 117
      [] c = "x" -> 120
      [] OTHER -> 0

\* a < b for strings
RECURSIVE StrLess(_, _)
StrLess(a, b) ==
    IF b = <<>> THEN FALSE
    ELSE IF a = <<>> THEN TRUE
    ELSE IF Ord(Head(a)) # Ord(Head(b)) THEN Ord(Head(a)) < Ord(Head(b))
    ELSE StrLess(Tail(a), Tail(b))

(***************************************************************************)
(* SearchResult and SearchSortBy.                                          *)
(***************************************************************************)
MiB == 1048576

\* file_attributes is <<>> (None or an empty mapping) or a non-empty sequence
\* standing for a non-empty mapping.
SearchResult(user, file_path, file_name, file_extension, file_size, bitrate, search_similarity, has_free_slots, file_attributes) ==
    [user |-> user, file_path |-> file_path, file_name |-> file_name,
     file_extension |-> file_extension, file_size |-> file_size,
     bitrate |-> bitrate, search_similarity |-> search_similarity,
     has_free_slots |-> has_free_slots, file_attributes |-> file_attributes]

\* sort keys with reverse=True
DescendingKeys == {"bitrate", "file_size", "search_similarity"}

\* the value of the key lambda of search_and_filter's sort for a numeric key
NumKey(r, sort_by) ==
    CASE sort_by = "bitrate" -> OrZero(r.bitrate)
      [] sort_by = "file_size" -> r.file_size
      [] sort_by = "search_similarity" -> r.search_similarity

StrKey(r, sort_by) ==
    CASE sort_by = "user" -> r.user
      [] sort_by = "file_name" -> r.file_name

\* variant of StaysBefore: an element with an equal key is overtaken
StaysBeforeStrict(e, x, sort_by) ==
    IF sort_by \in DescendingKeys
    THEN NumKey(e, sort_by) > NumKey(x, sort_by)
    ELSE StrLess(StrKey(e, sort_by), StrKey(x, sort_by))

\* x is placed behind e by list.sort (a stable sort): e's key does not come
\* after x's key in the requested order
StaysBefore(e, x, sort_by) ==
    IF sort_by \in DescendingKeys
    THEN NumKey(e, sort_by) >= NumKey(x, sort_by)
    ELSE ~StrLess(StrKey(x, sort_by), StrKey(e, sort_by))

InsertSorted(sorted, x, sort_by) ==
    LET pos == Cardinality({k \in DOMAIN sorted : StaysBefore(sorted[k], x, sort_by)})
    IN  SubSeq(sorted, 1, pos) \o <<x>> \o SubSeq(sorted, pos + 1, Len(sorted))

\* list.sort(key=..., reverse=...) for the five SearchSortBy keys
RECURSIVE SortBy(_, _)
SortBy(seq, sort_by) ==
    IF seq = <<>> THEN <<>>
    ELSE InsertSorted(SortBy(SubSeq(seq, 1, Len(seq) - 1), sort_by),
                      seq[Len(seq)], sort_by)

(***************************************************************************)
(* Search Client: NicotineAPI.search and NicotineAPI.search_and_filter.    *)
(* A backend response is one of                                            *)
(*   [tag |-> "exception"]            the request raised RequestException  *)
(*   [tag |-> "string", text |-> m]   a JSON string message, a sequence of *)
(*                                    phrases so that `in` is computed     *)
(*   [tag |-> "list", items |-> s]    a JSON array of result objects       *)
(*   [tag |-> "dict", has_results |-> b, items |-> s]   a JSON object      *)
(*   [tag |-> "other"]                any other JSON value                 *)
(* A call returns [raised |-> TRUE] or [raised |-> FALSE, results |-> s].  *)
(***************************************************************************)
Raised == [raised |-> TRUE, results |-> <<>>]
Returned(results) == [raised |-> FALSE, results |-> results]

\* search_text of the includes/excludes filters
SearchText(result) == Lower(result.file_name \o <<" ">> \o result.file_path)

\* the includes_text and excludes_text filtering of search
TextFilter(items, includes_text, excludes_text) ==
    LET included ==
            IF includes_text # <<>>
            THEN SelectSeq(items, LAMBDA r :
                     \A k \in DOMAIN includes_text :
                         Contains(SearchText(r), Lower(includes_text[k])))
            ELSE items
    IN  IF excludes_text # <<>>
        THEN SelectSeq(included, LAMBDA r :
                 ~\E k \in DOMAIN excludes_text :
                     Contains(SearchText(r), Lower(excludes_text[k])))
        ELSE included

\* the phrases search looks for in a string response
TooManySearches == <<"Too many simultaneous searches">>
NoResultsFound == <<"No results found">>

\* variant of Search: a string response is never an error
SearchSwallowsMessages(resp, includes_text, excludes_text) ==
    CASE resp.tag = "exception" -> Raised
      [] resp.tag = "list" ->
            Returned(TextFilter(resp.items, includes_text, excludes_text))
      [] resp.tag = "dict" ->
            IF resp.has_results
            THEN Returned(TextFilter(resp.items, includes_text, excludes_text))
            ELSE Returned(<<>>)
      [] OTHER -> Returned(<<>>)

\* variant of Search: an unexpected payload shape is an error
SearchRejectsMalformed(resp, includes_text, excludes_text) ==
    CASE resp.tag = "exception" -> Raised
      [] resp.tag = "string" ->
            IF Contains(resp.text, TooManySearches) THEN Raised
            ELSE IF Contains(resp.text, NoResultsFound) THEN Returned(<<>>)
            ELSE Raised
      [] resp.tag = "list" ->
            Returned(TextFilter(resp.items, includes_text, excludes_text))
      [] resp.tag = "dict" ->
            IF resp.has_results
            THEN Returned(TextFilter(resp.items, includes_text, excludes_text))
            ELSE Raised
      [] OTHER -> Raised

\* the payload is a JSON object without a list under `results`, or a value
\* that is neither a string, a list nor an object
UnexpectedShape(resp) ==
    \/ resp.tag = "dict" /\ ~resp.has_results
    \/ resp.tag \notin {"exception", "string", "list", "dict"}

Search(resp, includes_text, excludes_text) ==
    CASE resp.tag = "exception" -> Raised
      [] resp.tag = "string" ->
            IF Contains(resp.text, TooManySearches) THEN Raised
            ELSE IF Contains(resp.text, NoResultsFound) THEN Returned(<<>>)
            ELSE Raised
      [] resp.tag = "list" ->
            Returned(TextFilter(resp.items, includes_text, excludes_text))
      [] resp.tag = "dict" ->
            IF resp.has_results
            THEN Returned(TextFilter(resp.items, includes_text, excludes_text))
            ELSE Returned(<<>>)
      [] OTHER -> Returned(<<>>)

\* the client-side filters of search_and_filter: the result is kept
PassesFilters(result, min_bitrate, max_file_size_mb, min_similarity, require_free_slots, file_extensions) ==
    /\ ~(min_bitrate # None /\ result.bitrate # None
            /\ Val(result.bitrate) < Val(min_bitrate))
    /\ ~(require_free_slots /\ ~result.has_free_slots)
    /\ ~(Truthy(max_file_size_mb)
            /\ result.file_size > Val(max_file_size_mb) * MiB)
    /\ ~(result.search_similarity < min_similarity)
    /\ ~(file_extensions # <<>>
            /\ ~\E k \in DOMAIN file_extensions :
                    Lower(file_extensions[k]) = Lower(result.file_extension))

\* filtered_results[:limit] when limit is truthy
ApplyLimit(filtered_results, limit) ==
    IF Truthy(limit) THEN Slice(filtered_results, Val(limit)) ELSE filtered_results

SearchAndFilter(resp, min_bitrate, max_file_size_mb, min_similarity, require_free_slots, file_extensions, sort_by, limit, includes_text, excludes_text) ==
    LET found == Search(resp, includes_text, excludes_text)
        filtered_results ==
            SelectSeq(found.results, LAMBDA r :
                PassesFilters(r, min_bitrate, max_file_size_mb, min_similarity,
                              require_free_slots, file_extensions))
    IN  IF found.raised THEN Raised
        ELSE Returned(ApplyLimit(SortBy(filtered_results, sort_by), limit))

(***************************************************************************)
(* Best-Result Selector: NicotineAPI.download_best_result.                 *)
(***************************************************************************)
\* the min_bitrate step
BitrateFiltered(results, min_bitrate) ==
    IF Truthy(min_bitrate)
    THEN SelectSeq(results, LAMBDA r :
             Truthy(r.bitrate) /\ Val(r.bitrate) >= Val(min_bitrate))
    ELSE results

\* variant of FreeSlotPreferred: the preference is not applied
FreeSlotIgnored(filtered_results, prefer_free_slots) == filtered_results

\* variant of FreeSlotPreferred: the preference is a hard filter
FreeSlotRequired(filtered_results, prefer_free_slots) ==
    IF prefer_free_slots
    THEN SelectSeq(filtered_results, LAMBDA r : r.has_free_slots)
    ELSE filtered_results

\* the prefer_free_slots step
FreeSlotPreferred(filtered_results, prefer_free_slots) ==
    LET free_slot_results == SelectSeq(filtered_results, LAMBDA r : r.has_free_slots)
    IN  IF prefer_free_slots /\ free_slot_results # <<>>
        THEN free_slot_results
        ELSE filtered_results

\* variant of BestKeyGreater: the similarity dominates, the bitrate breaks ties
BestKeyGreaterSimilarityFirst(a, b) ==
    \/ a.search_similarity > b.search_similarity
    \/ /\ a.search_similarity = b.search_similarity
       /\ OrZero(a.bitrate) > OrZero(b.bitrate)

\* (a.bitrate or 0, a.search_similarity) > (b.bitrate or 0, b.search_similarity)
BestKeyGreater(a, b) ==
    \/ OrZero(a.bitrate) > OrZero(b.bitrate)
    \/ /\ OrZero(a.bitrate) = OrZero(b.bitrate)
       /\ a.search_similarity > b.search_similarity

\* max(filtered_results, key=...): the first element no other element beats
MaxByBestKey(filtered_results) ==
    LET k == CHOOSE k \in DOMAIN filtered_results :
                 /\ \A j \in DOMAIN filtered_results :
                        ~BestKeyGreater(filtered_results[j], filtered_results[k])
                 /\ \A j \in 1..(k - 1) :
                        BestKeyGreater(filtered_results[k], filtered_results[j])
    IN  filtered_results[k]

\* the result download_best_result sends the download request for: <<>> when
\* it returns None without a request, <<best_result>> otherwise
SelectBest(results, prefer_free_slots, min_bitrate) ==
    IF results = <<>> THEN <<>>
    ELSE LET filtered_results ==
                 FreeSlotPreferred(BitrateFiltered(results, min_bitrate),
                                   prefer_free_slots)
         IN  IF filtered_results = <<>> THEN <<>>
             ELSE <<MaxByBestKey(filtered_results)>>

\* variant of DownloadRequest: the attributes are never sent
DownloadRequestWithoutAttributes(result) ==
    [file_owner |-> result.user, file_virtual_path |-> result.file_path,
     file_size |-> result.file_size, file_attributes |-> <<>>]

\* the download_data that download_search_result and download build for a
\* result; file_attributes is <<>> when the key is left out
DownloadRequest(result) ==
    [file_owner |-> result.user, file_virtual_path |-> result.file_path,
     file_size |-> result.file_size,
     file_attributes |-> IF result.file_attributes # <<>>
                         THEN result.file_attributes ELSE <<>>]

(***************************************************************************)
(* Query Strategy Generator and deduplication: TrackSearcher.search_track. *)
(* A query is [is_tuple, query, custom_includes]: a plain string has       *)
(* is_tuple = FALSE and no custom_includes.                                *)
(***************************************************************************)
Quote == <<"\"">>

Plain(text) == [is_tuple |-> FALSE, query |-> text, custom_includes |-> <<>>]

ArtistStr(t) == IF t.artists # <<>> THEN Join(<<",", " ">>, t.artists) ELSE <<>>

\* the queries one strategy tag appends
StrategyQueries(strategy, t) ==
    LET artist_str == ArtistStr(t)
    IN  IF strategy = "artist title" /\ artist_str # <<>>
        THEN <<Plain(artist_str \o <<" ">> \o t.title)>>
        ELSE IF strategy = "\"artist\" \"title\"" /\ artist_str # <<>>
        THEN <<Plain(Quote \o artist_str \o Quote \o <<" ">>
                        \o Quote \o t.title \o Quote)>>
        ELSE IF strategy = "title artist" /\ artist_str # <<>>
        THEN <<Plain(t.title \o <<" ">> \o artist_str)>>
        ELSE IF strategy = "\"artist\" with title includes" /\ artist_str # <<>>
        THEN <<[is_tuple |-> TRUE, query |-> Quote \o artist_str \o Quote,
                custom_includes |-> <<t.title>>]>>
        ELSE IF strategy = "title"
        THEN <<Plain(t.title)>>
        ELSE <<>>

\* variant of StrategyLoop: the strategies are taken last to first
RECURSIVE StrategyLoopBackwards(_, _)
StrategyLoopBackwards(fallback_strategies, t) ==
    IF fallback_strategies = <<>> THEN <<>>
    ELSE StrategyLoopBackwards(Tail(fallback_strategies), t)
            \o StrategyQueries(Head(fallback_strategies), t)

RECURSIVE StrategyLoop(_, _)
StrategyLoop(fallback_strategies, t) ==
    IF fallback_strategies = <<>> THEN <<>>
    ELSE StrategyQueries(Head(fallback_strategies), t)
            \o StrategyLoop(Tail(fallback_strategies), t)

\* variant of GenerateQueries: no title query when no strategy matched
GenerateQueriesNoFallback(t, fallback_strategies) ==
    StrategyLoop(fallback_strategies, t)

\* the query list of search_track before truncation
GenerateQueries(t, fallback_strategies) ==
    LET generated == StrategyLoop(fallback_strategies, t)
    IN  IF generated = <<>> THEN <<Plain(t.title)>> ELSE generated

\* variant of RequireTermsAfter: the custom includes are appended to the
\* configuration's own list (require_terms.extend(custom_includes))
RequireTermsExtended(query_info, require_terms) ==
    IF query_info.is_tuple
    THEN require_terms \o query_info.custom_includes
    ELSE require_terms

\* the list held by the configuration after includes_text was built: the
\* tuple branch concatenates onto a copy, the plain branch passes the list on
\* and nothing downstream writes to it
RequireTermsAfter(query_info, require_terms) == require_terms

\* includes_text of one attempt
IncludesText(query_info, require_terms) ==
    IF query_info.is_tuple
    THEN require_terms \o query_info.custom_includes
    ELSE require_terms

ResultKey(result) == <<result.user, result.file_path>>

\* variant of Deduplicate: nothing is removed
DeduplicateNone(results) == results

\* variant of Deduplicate: the last occurrence of a key is kept
RECURSIVE DeduplicateKeepLast(_)
DeduplicateKeepLast(results) ==
    IF results = <<>> THEN <<>>
    ELSE LET rest == DeduplicateKeepLast(Tail(results))
         IN  IF \E k \in DOMAIN rest : ResultKey(rest[k]) = ResultKey(Head(results))
             THEN rest
             ELSE <<Head(results)>> \o rest

\* the seen/unique_results loop
RECURSIVE Deduplicate(_)
Deduplicate(results) ==
    IF results = <<>> THEN <<>>
    ELSE LET front == Deduplicate(SubSeq(results, 1, Len(results) - 1))
             last == results[Len(results)]
         IN  IF \E k \in DOMAIN front : ResultKey(front[k]) = ResultKey(last)
             THEN front
             ELSE Append(front, last)

\* unique_results after the final sort: what search_track returns
RankResults(results) == SortBy(Deduplicate(results), "search_similarity")

\* variant of HasSufficient: the threshold itself is not sufficient
HasSufficientStrict(results, sufficient_threshold) ==
    \E k \in DOMAIN results : results[k].search_similarity > sufficient_threshold

\* high_similarity_results is not empty: a result of this attempt's batch
\* reaches the threshold
HasSufficient(results, sufficient_threshold) ==
    \E k \in DOMAIN results : results[k].search_similarity >= sufficient_threshold

\* variant of LoopEnds: a failed attempt ends the loop
LoopEndsOnError(got, k, n, sufficient_threshold) ==
    \/ got.raised
    \/ /\ got.results # <<>>
       /\ HasSufficient(got.results, sufficient_threshold)
    \/ k = n

\* the fallback loop ends after attempt number k of n with outcome got: the
\* break on a sufficient result, or the queries are exhausted; an exception
\* is caught and the loop continues
LoopEnds(got, k, n, sufficient_threshold) ==
    \/ /\ ~got.raised
       /\ got.results # <<>>
       /\ HasSufficient(got.results, sufficient_threshold)
    \/ k = n

(***************************************************************************)
(* Inputs of the model: configurations, tracks and backend responses.      *)
(***************************************************************************)
Mp3 == <<"m", "p", "3">>

\* the defaults of the npp_search_* properties of RecotineConfig
DefaultConfig ==
    [allowed_extensions |-> <<Mp3>>,
     min_bitrate |-> Some(192),
     require_free_slots |-> TRUE,
     max_wait_time |-> 15,
     max_file_size_mb |-> Some(50),
     min_similarity |-> 3,
     sufficient_similarity |-> 8,
     max_attempts |-> 3,
     fallback_strategies |-> <<"artist title", "\"artist\" \"title\"", "title artist">>,
     exclude_terms |-> <<>>,
     require_terms |-> <<>>]

\* values of npp.search.fallback_strategies: the default, none, one, a
\* repeated tag, the tuple strategy, an unrecognized tag between two
\* recognized ones, an unrecognized tag alone
StrategyLists ==
    {DefaultConfig.fallback_strategies,
     <<>>,
     <<"title">>,
     <<"artist title", "artist title">>,
     <<"\"artist\" with title includes", "title">>,
     <<"title", "artist - title", "artist title">>,
     <<"artist - title">>}

AttemptLimits == {-1, 0, 1, 2, 3, 4}

\* values of npp.search.require_terms
RequireTermLists == {<<>>, <<<<"t">>>>}

\* configurations that vary the fallback settings and the required terms
\* under the default filters
FallbackConfigs ==
    {[DefaultConfig EXCEPT !.max_attempts = m, !.fallback_strategies = f,
                           !.require_terms = r] :
        m \in AttemptLimits, f \in StrategyLists, r \in RequireTermLists}

\* configurations that vary the filter settings, with one attempt per track
FilterConfigs ==
    {[DefaultConfig EXCEPT !.max_attempts = 1, !.min_bitrate = b,
                           !.require_free_slots = s] :
        b \in {None, Some(0), Some(192)}, s \in BOOLEAN}

Title == <<"T">>

\* artists_are_str is FALSE when the playlist JSON holds a null among the
\* artists: ", ".join then raises TypeError
Tracks ==
    {[title |-> Title, artists |-> <<<<"A">>, <<"b">>>>, artists_are_str |-> TRUE],
     [title |-> Title, artists |-> <<>>, artists_are_str |-> TRUE],
     [title |-> Title, artists |-> <<<<"A">>>>, artists_are_str |-> FALSE]}

NoTrack == [title |-> <<>>, artists |-> <<>>, artists_are_str |-> TRUE]

U1 == <<"u", "1">>
U2 == <<"u", "2">>
P1 == <<"p", "1">>
P2 == <<"p", "2">>

\* candidate files the backend can offer
Catalog ==
    {SearchResult(U1, P1, <<"T">>, Mp3, 5 * MiB, Some(320), 5, TRUE, <<>>),
     SearchResult(U1, P1, <<"T">>, Mp3, 5 * MiB, Some(256), 8, TRUE, <<"a">>),
     SearchResult(U2, P1, <<"x">>, <<"M", "P", "3">>, 5 * MiB, None, 8, TRUE, <<>>),
     SearchResult(U1, P2, <<"t">>, Mp3, 5 * MiB, Some(128), 8, FALSE, <<>>)}

RECURSIVE SeqsUpTo(_, _)
SeqsUpTo(S, n) ==
    IF n = 0 THEN {<<>>}
    ELSE LET shorter == SeqsUpTo(S, n - 1)
         IN  shorter \cup {Append(q, x) : q \in shorter, x \in S}

Batches == SeqsUpTo(Catalog, MaxBatch)

\* string responses of the backend
Messages ==
    {TooManySearches,
     <<"Error: ">> \o TooManySearches \o <<". Try again later">>,
     NoResultsFound,
     NoResultsFound \o <<" for this query">>,
     <<"Internal error">>}

SearchResponses ==
    {[tag |-> "exception"], [tag |-> "other"]}
    \cup {[tag |-> "string", text |-> m] : m \in Messages}
    \cup {[tag |-> "list", items |-> b] : b \in Batches}
    \cup {[tag |-> "dict", has_results |-> TRUE, items |-> b] : b \in Batches}
    \cup {[tag |-> "dict", has_results |-> FALSE, items |-> <<>>]}

\* answers of GET /foo
HealthResponses ==
    {[tag |-> "exception"],
     [tag |-> "response", status_code |-> 200, message |-> "Hello World"],
     [tag |-> "response", status_code |-> 200, message |-> "Goodbye"],
     [tag |-> "response", status_code |-> 503, message |-> "Hello World"]}

\* variant of IsAvailable: the message of the answer is not looked at
IsAvailableByStatus(health) ==
    IF health.tag = "exception" THEN FALSE
    ELSE health.status_code = 200

IsAvailable(health) ==
    IF health.tag = "exception" THEN FALSE
    ELSE health.status_code = 200 /\ health.message = "Hello World"

(***************************************************************************)
(* The run: search_all_playlists driving search_playlist, search_track and *)
(* download_best_result.                                                   *)
(***************************************************************************)
ZeroStats ==
    [total_tracks |-> 0, successful_downloads |-> 0, failed_searches |-> 0,
     api_errors |-> 0]

\* no search_track call has started
Idle ==
    /\ track = NoTrack
    /\ queries = <<>>
    /\ attempt = 0
    /\ all_results = <<>>
    /\ search_results = <<>>
    /\ stats = ZeroStats
    /\ attempts = <<>>
    /\ trackLog = <<>>
    /\ requests = <<>>
    /\ delays = 0
    /\ expected = 0
    /\ unavailable = FALSE
    /\ interrupted = FALSE
    /\ summary = FALSE

\* no wait_for_downloads call has started
NoWait ==
    /\ timeout = 0
    /\ check_interval = 0
    /\ cleanup_when_done = FALSE
    /\ elapsed = 0
    /\ polls = <<>>
    /\ cleans = 0
    /\ final_downloads = <<>>

\* the configurations of a run: the free-slot requirement stays at its default
DriverConfigs == {c \in FilterConfigs : c.require_free_slots}

\* a run of search_all_playlists
Init ==
    /\ config \in DriverConfigs
    /\ download \in BOOLEAN
    /\ nPlaylists \in 0..MaxPlaylists
    /\ plIdx = 1
    /\ nTracks = 0
    /\ i = 0
    /\ pc = "start"
    /\ Idle
    /\ NoWait

\* the locals of search_track and of one turn of the track loop are gone (the
\* call returned or was unwound) or are about to be rebound
LocalsDropped ==
    /\ track' = NoTrack
    /\ queries' = <<>>
    /\ attempt' = 0
    /\ all_results' = <<>>
    /\ search_results' = <<>>
    /\ attempts' = <<>>
    /\ requests' = <<>>

\* search_all_playlists up to its for loop
Start ==
    /\ pc = "start"
    /\ pc' = IF nPlaylists = 0 THEN "done" ELSE "playlists"
    /\ UNCHANGED <<waitVars, unavailable, config, download, nPlaylists, plIdx, nTracks, i, track,
                   queries, attempt, all_results, search_results, stats,
                   attempts, trackLog, requests, delays, expected,
                   interrupted, summary>>

\* one turn of `for playlist_path in playlists`: load_playlist, and the end of
\* the loop with print_final_summary
NextPlaylist ==
    /\ pc = "playlists"
    /\ LocalsDropped
    /\ UNCHANGED <<waitVars, unavailable, config, download, nPlaylists, stats, trackLog, interrupted>>
    /\ IF plIdx > nPlaylists
       THEN /\ pc' = "done"
            /\ summary' = TRUE
            /\ UNCHANGED <<plIdx, nTracks, i, delays, expected>>
       ELSE /\ UNCHANGED summary
            /\ \/ \* load_playlist raises ValueError: except Exception, continue
                  /\ plIdx' = plIdx + 1
                  /\ pc' = "playlists"
                  /\ UNCHANGED <<nTracks, i, delays, expected>>
               \/ \E n \in 0..(MaxTracks - expected) :
                  /\ nTracks' = n
                  /\ i' = 1
                  /\ delays' = 0
                  /\ IF download
                     THEN /\ pc' = "check"
                          /\ UNCHANGED <<plIdx, expected>>
                     ELSE /\ expected' = expected + n
                          /\ IF n = 0
                             THEN pc' = "playlists" /\ plIdx' = plIdx + 1
                             ELSE pc' = "track" /\ UNCHANGED plIdx

\* search_playlist's availability check in download mode
CheckAvailable ==
    /\ pc = "check"
    /\ \E health \in HealthResponses :
          IF ~IsAvailable(health)
          THEN \* NicotineAPIError: except Exception in search_all_playlists
               /\ pc' = "playlists"
               /\ plIdx' = plIdx + 1
               /\ unavailable' = TRUE
               /\ UNCHANGED expected
          ELSE /\ expected' = expected + nTracks
               /\ UNCHANGED unavailable
               /\ IF nTracks = 0
                  THEN pc' = "playlists" /\ plIdx' = plIdx + 1
                  ELSE pc' = "track" /\ UNCHANGED plIdx
    /\ UNCHANGED <<waitVars, config, download, nPlaylists, nTracks, i, track, queries,
                   attempt, all_results, search_results, stats, attempts,
                   trackLog, requests, delays, interrupted, summary>>

\* variant of FinishTrack: a track that raised ends the playlist
FinishTrackAbortOnError(new_stats, entry) ==
    /\ stats' = IF entry.raised THEN new_stats
                ELSE [new_stats EXCEPT !.total_tracks = @ + 1]
    /\ trackLog' = Append(trackLog,
            [empty |-> entry.empty, raised |-> entry.raised,
             selector |-> entry.selector, enqueued |-> entry.enqueued,
             counters |-> {c \in DOMAIN stats : stats'[c] > stats[c]}])
    /\ IF i < nTracks /\ ~entry.raised
       THEN pc' = "sleep" /\ UNCHANGED plIdx
       ELSE pc' = "playlists" /\ plIdx' = plIdx + 1

\* the end of one turn of `for i, track in enumerate(playlist.tracks, 1)`:
\* the counters, total_tracks, and where control goes next
FinishTrack(new_stats, entry) ==
    /\ stats' = [new_stats EXCEPT !.total_tracks = @ + 1]
    /\ trackLog' = Append(trackLog,
            [empty |-> entry.empty, raised |-> entry.raised,
             selector |-> entry.selector, enqueued |-> entry.enqueued,
             counters |-> {c \in DOMAIN stats : stats'[c] > stats[c]}])
    /\ IF i < nTracks
       THEN pc' = "sleep" /\ UNCHANGED plIdx
       ELSE pc' = "playlists" /\ plIdx' = plIdx + 1

Bump(counter) == [stats EXCEPT ![counter] = @ + 1]

\* what happened to a track: search_track returned an empty list; an
\* exception reached the handlers of search_playlist; what the selector did
\* ("not called", "nothing": it returned None, "chosen": it sent a request);
\* the backend accepted the download request
Outcome(empty, raised, selector, enqueued) ==
    [empty |-> empty, raised |-> raised, selector |-> selector,
     enqueued |-> enqueued]

\* variant of SearchTrackReturns: the download argument is not looked at
SearchTrackReturnsDownloading(pool) ==
    \E unique_results \in {RankResults(pool)} :
        /\ search_results' = unique_results
        /\ IF unique_results # <<>>
           THEN /\ pc' = "download"
                /\ UNCHANGED <<stats, trackLog, plIdx>>
           ELSE FinishTrack(Bump("failed_searches"),
                            Outcome(TRUE, FALSE, "not called", FALSE))

\* search_track returns unique_results to search_playlist, which branches on it
SearchTrackReturns(pool) ==
    \E unique_results \in {RankResults(pool)} :
        /\ search_results' = unique_results
        /\ IF unique_results # <<>>
           THEN IF download
                THEN /\ pc' = "download"
                     /\ UNCHANGED <<stats, trackLog, plIdx>>
                ELSE FinishTrack(stats, Outcome(FALSE, FALSE, "not called", FALSE))
           ELSE FinishTrack(Bump("failed_searches"),
                            Outcome(TRUE, FALSE, "not called", FALSE))

\* the head of the track loop and search_track up to its fallback loop
BeginTrack ==
    /\ pc = "track"
    /\ \E t \in Tracks :
          /\ track' = t
          /\ all_results' = <<>>
          /\ attempts' = <<>>
          /\ requests' = <<>>
          /\ attempt' = 1
          /\ IF ~t.artists_are_str
             THEN \* TypeError in search_track: except Exception in search_playlist
                  /\ queries' = <<>>
                  /\ search_results' = <<>>
                  /\ FinishTrack(Bump("api_errors"),
                                 Outcome(FALSE, TRUE, "not called", FALSE))
             ELSE LET truncated == Slice(GenerateQueries(t, config.fallback_strategies),
                                         config.max_attempts)
                  IN  /\ queries' = truncated
                      /\ IF truncated = <<>>
                         THEN SearchTrackReturns(<<>>)
                         ELSE /\ pc' = "attempt"
                              /\ search_results' = <<>>
                              /\ UNCHANGED <<stats, trackLog, plIdx>>
    /\ UNCHANGED <<waitVars, unavailable, config, download, nPlaylists, nTracks, i, delays, expected,
                   interrupted, summary>>

\* one turn of the fallback loop of search_track: one search_and_filter call
SearchAttempt ==
    /\ pc = "attempt"
    /\ \E resp \in SearchResponses :
       \E includes_text \in {IncludesText(queries[attempt], config.require_terms)} :
       \E got \in {SearchAndFilter(resp, config.min_bitrate,
                                   config.max_file_size_mb,
                                   config.min_similarity,
                                   config.require_free_slots,
                                   config.allowed_extensions,
                                   "search_similarity", None, includes_text,
                                   config.exclude_terms)} :
          /\ attempts' = Append(attempts,
                                [query_info |-> queries[attempt],
                                 require_terms |-> config.require_terms,
                                 includes_text |-> includes_text,
                                 unexpected |-> UnexpectedShape(resp),
                                 raised |-> got.raised,
                                 results |-> got.results])
          /\ attempt' = attempt + 1
          /\ all_results' = IF ~got.raised /\ got.results # <<>>
                            THEN all_results \o got.results
                            ELSE all_results
          /\ IF LoopEnds(got, attempt, Len(queries), config.sufficient_similarity)
             THEN SearchTrackReturns(all_results')
             ELSE /\ pc' = "attempt"
                  /\ UNCHANGED <<search_results, stats, trackLog, plIdx>>
    /\ config' = [config EXCEPT !.require_terms =
                                    RequireTermsAfter(queries[attempt], @)]
    /\ UNCHANGED <<waitVars, unavailable, download, nPlaylists, nTracks, i, track, queries,
                   requests, delays, expected, interrupted, summary>>

\* best_result = search_results[0]: the result search_playlist names in its
\* "Queued" line
ReportedResult(results) == results[1]

\* api.download_best_result(search_results, ...) in search_playlist and the
\* counting of its outcome
DownloadBest ==
    /\ pc = "download"
    /\ \E chosen \in {SelectBest(search_results, config.require_free_slots,
                                  config.min_bitrate)} :
          IF chosen = <<>>
          THEN \* download_best_result returns None: "Queued" is printed
               /\ requests' = requests
               /\ FinishTrack(Bump("successful_downloads"),
                              Outcome(FALSE, FALSE, "nothing", FALSE))
          ELSE /\ requests' = Append(requests,
                                     [download_data |-> DownloadRequest(chosen[1]),
                                      best_result |-> chosen[1],
                                      reported |-> ReportedResult(search_results)])
               /\ \/ FinishTrack(Bump("successful_downloads"),
                                 Outcome(FALSE, FALSE, "chosen", TRUE))
                  \/ \* the request raises: except Exception around the download
                     FinishTrack(Bump("api_errors"),
                                 Outcome(FALSE, TRUE, "chosen", FALSE))
    /\ UNCHANGED <<waitVars, unavailable, config, download, nPlaylists, nTracks, i, track, queries,
                   attempt, all_results, search_results, attempts, delays,
                   expected, interrupted, summary>>

\* time.sleep(1) between two tracks, then the next turn of the track loop
Sleep ==
    /\ pc = "sleep"
    /\ delays' = delays + 1
    /\ i' = i + 1
    /\ pc' = "track"
    /\ LocalsDropped
    /\ UNCHANGED <<waitVars, unavailable, config, download, nPlaylists, plIdx, nTracks, stats,
                   trackLog, expected, interrupted, summary>>

\* variant of Interrupt: the signal is handled like any other exception of
\* the playlist (continue with the next playlist)
InterruptSkipsPlaylist ==
    /\ pc \in {"playlists", "check", "track", "attempt", "download", "sleep"}
    /\ plIdx <= nPlaylists
    /\ interrupted' = TRUE
    /\ pc' = "playlists"
    /\ plIdx' = plIdx + 1
    /\ LocalsDropped
    /\ UNCHANGED <<waitVars, unavailable, config, download, nPlaylists, nTracks, i,
                   stats, trackLog, delays, expected, summary>>

\* KeyboardInterrupt while a playlist is processed: no `except Exception`
\* catches it, search_all_playlists breaks and prints the final summary
Interrupt ==
    /\ pc \in {"playlists", "check", "track", "attempt", "download", "sleep"}
    /\ plIdx <= nPlaylists
    /\ interrupted' = TRUE
    /\ summary' = TRUE
    /\ pc' = "done"
    /\ LocalsDropped
    /\ UNCHANGED <<waitVars, unavailable, config, download, nPlaylists, plIdx, nTracks, i, stats,
                   trackLog, delays, expected>>

Next ==
    \/ Start
    \/ NextPlaylist
    \/ CheckAvailable
    \/ BeginTrack
    \/ SearchAttempt
    \/ DownloadBest
    \/ Sleep
    \/ Interrupt

Spec == Init /\ [][Next]_vars

(***************************************************************************)
(* One search_track call under every fallback configuration: the batch     *)
(* driver is about to process the only track of a playlist, without        *)
(* downloading.                                                            *)
(***************************************************************************)
InitTrack ==
    /\ config \in FallbackConfigs
    /\ download = FALSE
    /\ nPlaylists = 1
    /\ plIdx = 1
    /\ nTracks = 1
    /\ i = 1
    /\ pc = "track"
    /\ Idle
    /\ NoWait

NextTrack ==
    \/ BeginTrack
    \/ SearchAttempt

SpecTrack == InitTrack /\ [][NextTrack]_vars

(***************************************************************************)
(* One NicotineAPI.download_best_result call on any result list: the batch *)
(* driver is about to call it for the only track of a playlist.            *)
(***************************************************************************)
MaxSelect == 2       \* longest result list handed to the selector

\* results of every bitrate, with or without a free slot; the closer match
\* comes from another user and path, is larger and carries attributes
SelectCatalog ==
    {SearchResult(IF sim = 8 THEN U2 ELSE U1, IF sim = 8 THEN P2 ELSE P1,
                  <<"T">>, Mp3, sim * MiB, b, sim, free,
                  IF sim = 8 THEN <<"a">> ELSE <<>>) :
        b \in {None, Some(0), Some(128), Some(320)}, sim \in {5, 8},
        free \in BOOLEAN}

InitSelect ==
    /\ config \in FilterConfigs
    /\ download = TRUE
    /\ nPlaylists = 1
    /\ plIdx = 1
    /\ nTracks = 1
    /\ i = 1
    /\ track \in {t \in Tracks : t.artists_are_str /\ t.artists # <<>>}
    /\ pc = "download"
    /\ queries = <<>>
    /\ attempt = 0
    /\ all_results = <<>>
    /\ search_results \in SeqsUpTo(SelectCatalog, MaxSelect)
    /\ stats = ZeroStats
    /\ attempts = <<>>
    /\ trackLog = <<>>
    /\ requests = <<>>
    /\ delays = 0
    /\ expected = 1
    /\ interrupted = FALSE
    /\ unavailable = FALSE
    /\ summary = FALSE
    /\ NoWait

NextSelect == DownloadBest

SpecSelect == InitSelect /\ [][NextSelect]_vars

(***************************************************************************)
(* NicotineAPI.search_and_filter called directly, and called again with    *)
(* the same arguments while the backend gives the same answer.  The policy *)
(* in config supplies the filter arguments; attempts logs the calls.       *)
(***************************************************************************)
Wav == <<"w", "a", "v">>

\* candidate files that each fail a different filter of search_and_filter
ClientCatalog ==
    {SearchResult(U1, P1, <<"T">>, Mp3, 5 * MiB, Some(320), 8, TRUE, <<>>),
     SearchResult(U1, P2, <<"T">>, Mp3, 5 * MiB, Some(128), 8, TRUE, <<>>),
     SearchResult(U2, P1, <<"x">>, <<"M", "P", "3">>, 5 * MiB, None, 9, TRUE, <<>>),
     SearchResult(U2, P2, <<"t">>, Mp3, 6 * MiB, Some(320), 5, FALSE, <<>>),
     SearchResult(U2, P1, <<"T">>, Wav, 5 * MiB, Some(320), 2, TRUE, <<>>)}

ClientBatches == SeqsUpTo(ClientCatalog, MaxBatch)

ClientResponses ==
    {[tag |-> "exception"], [tag |-> "other"]}
    \cup {[tag |-> "string", text |-> m] : m \in Messages}
    \cup {[tag |-> "list", items |-> b] : b \in ClientBatches}
    \cup {[tag |-> "dict", has_results |-> TRUE, items |-> b] : b \in ClientBatches}
    \cup {[tag |-> "dict", has_results |-> FALSE, items |-> <<>>]}

\* require_terms and exclude_terms of a policy
TermSettings ==
    {[require_terms |-> <<>>, exclude_terms |-> <<>>],
     [require_terms |-> <<<<"t">>>>, exclude_terms |-> <<>>],
     [require_terms |-> <<>>, exclude_terms |-> <<<<"X">>>>]}

\* configurations that vary every filter argument of search_and_filter
ClientConfigs ==
    {[DefaultConfig EXCEPT !.min_bitrate = b, !.max_file_size_mb = s,
                           !.require_free_slots = f, !.allowed_extensions = e,
                           !.require_terms = t.require_terms,
                           !.exclude_terms = t.exclude_terms] :
        b \in {None, Some(192)}, s \in {None, Some(0), Some(5)},
        f \in BOOLEAN, e \in {<<>>, <<Mp3>>}, t \in TermSettings}

SortKeys == {"bitrate", "file_size", "search_similarity", "user", "file_name"}

\* values of the limit argument: not given, zero, one
Limits == {None, Some(0), Some(1)}

\* variant of ClientCall: the client holds back what an earlier call returned
ClientCallRemembering(log, resp, sort_by, limit) ==
    LET got == SearchAndFilter(resp, config.min_bitrate, config.max_file_size_mb,
                               config.min_similarity, config.require_free_slots,
                               config.allowed_extensions, sort_by, limit,
                               config.require_terms, config.exclude_terms)
    IN  IF got.raised THEN got
        ELSE Returned(SelectSeq(got.results, LAMBDA r :
                 ~\E c \in DOMAIN log :
                      \E k \in DOMAIN log[c].results : log[c].results[k] = r))

\* a search_and_filter call made after the calls of log: the client keeps
\* its base_url, timeout and session and nothing of earlier calls
ClientCall(log, resp, sort_by, limit) ==
    SearchAndFilter(resp, config.min_bitrate, config.max_file_size_mb,
                    config.min_similarity, config.require_free_slots,
                    config.allowed_extensions, sort_by, limit,
                    config.require_terms, config.exclude_terms)

CallRecord(resp, sort_by, limit, got) ==
    [resp |-> resp, sort_by |-> sort_by, limit |-> limit,
     raised |-> got.raised, results |-> got.results]

InitSearch ==
    /\ config \in ClientConfigs
    /\ download = FALSE
    /\ nPlaylists = 0
    /\ plIdx = 1
    /\ nTracks = 0
    /\ i = 0
    /\ pc = "search"
    /\ Idle
    /\ NoWait

\* the first call
SearchCall ==
    /\ pc = "search"
    /\ attempts = <<>>
    /\ \E resp \in ClientResponses, sort_by \in SortKeys, limit \in Limits :
       \E got \in {ClientCall(attempts, resp, sort_by, limit)} :
          attempts' = <<CallRecord(resp, sort_by, limit, got)>>
    /\ UNCHANGED <<waitVars, unavailable, config, download, nPlaylists, plIdx, nTracks, i,
                   track, pc, queries, attempt, all_results, search_results,
                   stats, trackLog, requests, delays, expected, interrupted,
                   summary>>

\* the same call again, the backend answering as before
SearchAgain ==
    /\ pc = "search"
    /\ Len(attempts) = 1
    /\ \E got \in {ClientCall(attempts, attempts[1].resp, attempts[1].sort_by,
                              attempts[1].limit)} :
          attempts' = Append(attempts,
                             CallRecord(attempts[1].resp, attempts[1].sort_by,
                                        attempts[1].limit, got))
    /\ UNCHANGED <<waitVars, unavailable, config, download, nPlaylists, plIdx, nTracks, i,
                   track, pc, queries, attempt, all_results, search_results,
                   stats, trackLog, requests, delays, expected, interrupted,
                   summary>>

NextSearch ==
    \/ SearchCall
    \/ SearchAgain

SpecSearch == InitSearch /\ [][NextSearch]_vars

(***************************************************************************)
(* TrackSearcher.download_best_result: the availability check, search_track *)
(* and NicotineAPI.download_best_result for one track.  attempts logs the  *)
(* calls to the backend in order: the health check, then the searches.     *)
(***************************************************************************)
TrackDownloadConfigs == FilterConfigs \cup {DefaultConfig}

InitTrackDownload ==
    /\ config \in TrackDownloadConfigs
    /\ download = TRUE
    /\ nPlaylists = 0
    /\ plIdx = 1
    /\ nTracks = 0
    /\ i = 0
    /\ pc = "dl_start"
    /\ Idle
    /\ NoWait

\* is_available, and search_track up to its fallback loop
TrackDownloadStart ==
    /\ pc = "dl_start"
    /\ \E health \in HealthResponses, t \in Tracks :
          /\ attempts' = <<[call |-> "health", answer |-> health]>>
          /\ unavailable' = ~IsAvailable(health)
          /\ track' = t
          /\ IF ~IsAvailable(health) \/ ~t.artists_are_str
             THEN \* NicotineAPIError, or TypeError in search_track
                  /\ queries' = <<>>
                  /\ pc' = "dl_raised"
             ELSE /\ queries' = Slice(GenerateQueries(t, config.fallback_strategies),
                                      config.max_attempts)
                  /\ pc' = IF queries' = <<>> THEN "dl_none" ELSE "dl_attempt"
    /\ attempt' = 1
    /\ UNCHANGED <<waitVars, config, download, nPlaylists, plIdx, nTracks, i, all_results,
                   search_results, stats, trackLog, requests, delays, expected,
                   interrupted, summary>>

\* one turn of the fallback loop of search_track, and `if not results`
TrackDownloadAttempt ==
    /\ pc = "dl_attempt"
    /\ \E resp \in SearchResponses :
       \E includes_text \in {IncludesText(queries[attempt], config.require_terms)} :
       \E got \in {SearchAndFilter(resp, config.min_bitrate,
                                   config.max_file_size_mb,
                                   config.min_similarity,
                                   config.require_free_slots,
                                   config.allowed_extensions,
                                   "search_similarity", None, includes_text,
                                   config.exclude_terms)} :
          /\ attempts' = Append(attempts,
                                [call |-> "search",
                                 query_info |-> queries[attempt],
                                 raised |-> got.raised,
                                 results |-> got.results])
          /\ attempt' = attempt + 1
          /\ all_results' = IF ~got.raised /\ got.results # <<>>
                            THEN all_results \o got.results
                            ELSE all_results
          /\ IF LoopEnds(got, attempt, Len(queries), config.sufficient_similarity)
             THEN /\ search_results' = RankResults(all_results')
                  /\ pc' = IF search_results' = <<>> THEN "dl_none" ELSE "dl_select"
             ELSE /\ pc' = "dl_attempt"
                  /\ UNCHANGED search_results
    /\ config' = [config EXCEPT !.require_terms =
                                    RequireTermsAfter(queries[attempt], @)]
    /\ UNCHANGED <<waitVars, unavailable, download, nPlaylists, plIdx, nTracks, i,
                   track, queries, stats, trackLog, requests, delays, expected,
                   interrupted, summary>>

\* self.api.download_best_result(results, ...) and its return
TrackDownloadSelect ==
    /\ pc = "dl_select"
    /\ \E chosen \in {SelectBest(search_results, config.require_free_slots,
                                  config.min_bitrate)} :
          IF chosen = <<>>
          THEN /\ pc' = "dl_none"
               /\ UNCHANGED requests
          ELSE /\ requests' = Append(requests,
                                     [download_data |-> DownloadRequest(chosen[1]),
                                      best_result |-> chosen[1]])
               /\ pc' \in {"dl_returned", "dl_raised"}
    /\ UNCHANGED <<waitVars, unavailable, config, download, nPlaylists, plIdx, nTracks, i,
                   track, queries, attempt, all_results, search_results, stats,
                   attempts, trackLog, delays, expected, interrupted, summary>>

NextTrackDownload ==
    \/ TrackDownloadStart
    \/ TrackDownloadAttempt
    \/ TrackDownloadSelect

SpecTrackDownload == InitTrackDownload /\ [][NextTrackDownload]_vars

(***************************************************************************)
(* PlaylistDownloader.download_playlist, the batch driver of the           *)
(* playlist_downloader script: one playlist of "Artist - Song" entries.    *)
(***************************************************************************)
InitDownloader ==
    /\ config = DefaultConfig
    /\ download = TRUE
    /\ nPlaylists = 1
    /\ plIdx = 1
    /\ nTracks \in 0..MaxTracks
    /\ i = 1
    /\ pc = IF nTracks = 0 THEN "pd_done" ELSE "pd_track"
    /\ Idle
    /\ NoWait

\* one turn of `for i, track in enumerate(tracks, 1)` up to the delay:
\* search_and_select_best_track, download_track and the counters
DownloaderTrack ==
    /\ pc = "pd_track"
    /\ \E resp \in SearchResponses :
       \E got \in {SearchAndFilter(resp, Some(192), None, 3, TRUE, <<>>,
                                   "bitrate", Some(10), <<>>, <<>>)} :
          /\ search_results' = got.results
          /\ IF got.raised
             THEN \* NicotineAPIError is counted, best_result is None
                  /\ stats' = [stats EXCEPT !.api_errors = @ + 1,
                                            !.failed_searches = @ + 1,
                                            !.total_tracks = @ + 1]
                  /\ requests' = <<>>
             ELSE IF got.results = <<>>
             THEN /\ stats' = [stats EXCEPT !.failed_searches = @ + 1,
                                            !.total_tracks = @ + 1]
                  /\ requests' = <<>>
             ELSE /\ requests' = <<[download_data |-> DownloadRequest(got.results[1]),
                                    best_result |-> got.results[1]]>>
                  /\ \/ stats' = [stats EXCEPT !.successful_downloads = @ + 1,
                                               !.total_tracks = @ + 1]
                     \/ \* the request fails: download_track returns False
                        stats' = [stats EXCEPT !.api_errors = @ + 1,
                                               !.total_tracks = @ + 1]
    /\ pc' = "pd_sleep"
    /\ UNCHANGED <<waitVars, unavailable, config, download, nPlaylists, plIdx, nTracks, i,
                   track, queries, attempt, all_results, attempts, trackLog,
                   delays, expected, interrupted, summary>>

\* time.sleep(1) at the end of the turn, then the next turn or the end
DownloaderSleep ==
    /\ pc = "pd_sleep"
    /\ delays' = delays + 1
    /\ IF i < nTracks
       THEN i' = i + 1 /\ pc' = "pd_track"
       ELSE pc' = "pd_done" /\ UNCHANGED i
    /\ UNCHANGED <<waitVars, unavailable, config, download, nPlaylists, plIdx, nTracks,
                   track, queries, attempt, all_results, search_results, stats,
                   attempts, trackLog, requests, expected, interrupted, summary>>

NextDownloader ==
    \/ DownloaderTrack
    \/ DownloaderSleep

SpecDownloader == InitDownloader /\ [][NextDownloader]_vars

(***************************************************************************)
(* NicotineAPI.wait_for_downloads: the polling loop, the final              *)
(* get_downloads and the clean request.  A DownloadInfo is represented by  *)
(* its status; time is in whole seconds.                                   *)
(***************************************************************************)
MaxTimeout == 3      \* largest timeout argument

DownloadInfo(status) == [status |-> status]

\* download lists the backend reports: none, finished ones only, stopped
\* ones only, an active one, a finished and a queued one
DownloadLists ==
    {<<>>,
     <<DownloadInfo("Finished")>>,
     <<DownloadInfo("Cancelled"), DownloadInfo("Failed")>>,
     <<DownloadInfo("Transferring")>>,
     <<DownloadInfo("Finished"), DownloadInfo("Queued")>>}

\* answers of GET /download/getdownloads
DownloadsResponses ==
    {[tag |-> "exception"]} \cup {[tag |-> "list", items |-> d] : d \in DownloadLists}

GetDownloads(resp) ==
    IF resp.tag = "exception" THEN Raised ELSE Returned(resp.items)

\* variant of GetActiveDownloads: every download counts as active
GetActiveDownloadsUnfiltered(resp) == GetDownloads(resp)

GetActiveDownloads(resp) ==
    LET all_downloads == GetDownloads(resp)
    IN  IF all_downloads.raised THEN Raised
        ELSE Returned(SelectSeq(all_downloads.results, LAMBDA dl :
                 dl.status \notin {"Finished", "Cancelled", "Failed"}))

\* values of the check_interval argument
Intervals == {0, 1, 2}

\* seconds one poll can take on the clock; a turn of the loop that does not
\* sleep still takes the time of its round trip
PollDurations == {d \in {0, 1} : check_interval + d >= 1}

InitWait ==
    /\ config = DefaultConfig
    /\ download = TRUE
    /\ nPlaylists = 0
    /\ plIdx = 1
    /\ nTracks = 0
    /\ i = 0
    /\ pc = "wd_test"
    /\ Idle
    /\ timeout \in -1..MaxTimeout
    /\ check_interval \in Intervals
    /\ cleanup_when_done \in BOOLEAN
    /\ elapsed = 0
    /\ polls = <<>>
    /\ cleans = 0
    /\ final_downloads = <<>>

runVars == <<config, download, nPlaylists, plIdx, nTracks, i, track, queries,
             attempt, all_results, search_results, stats, attempts, trackLog,
             requests, delays, expected, interrupted, unavailable, summary>>

\* the condition of `while time.time() - start_time < timeout`, and the else
\* branch of the loop when it is false
WaitTest ==
    /\ pc = "wd_test"
    /\ pc' = IF elapsed < timeout THEN "wd_poll" ELSE "wd_final"
    /\ UNCHANGED <<runVars, waitVars>>

\* get_active_downloads and `if not active_downloads: break`
WaitPoll ==
    /\ pc = "wd_poll"
    /\ \E resp \in DownloadsResponses, d \in PollDurations :
       \E active_downloads \in {GetActiveDownloads(resp)} :
          /\ polls' = Append(polls, [at |-> elapsed, answer |-> resp,
                                     raised |-> active_downloads.raised,
                                     active |-> active_downloads.results])
          /\ elapsed' = elapsed + d
          /\ pc' = IF active_downloads.raised THEN "wd_raised"
                   ELSE IF active_downloads.results = <<>> THEN "wd_final"
                   ELSE "wd_sleep"
    /\ UNCHANGED <<runVars, timeout, check_interval, cleanup_when_done, cleans,
                   final_downloads>>

\* time.sleep(check_interval)
WaitSleep ==
    /\ pc = "wd_sleep"
    /\ elapsed' = elapsed + check_interval
    /\ pc' = "wd_test"
    /\ UNCHANGED <<runVars, timeout, check_interval, cleanup_when_done, polls,
                   cleans, final_downloads>>

\* final_downloads = self.get_downloads()
WaitFinal ==
    /\ pc = "wd_final"
    /\ \E resp \in DownloadsResponses :
       \E got \in {GetDownloads(resp)} :
          IF got.raised
          THEN pc' = "wd_raised" /\ UNCHANGED final_downloads
          ELSE /\ final_downloads' = <<got.results>>
               /\ pc' = IF cleanup_when_done THEN "wd_clean" ELSE "wd_returned"
    /\ UNCHANGED <<runVars, timeout, check_interval, cleanup_when_done, elapsed,
                   polls, cleans>>

\* self.clean_downloads(): the request is sent and returns or raises
WaitClean ==
    /\ pc = "wd_clean"
    /\ cleans' = cleans + 1
    /\ pc' \in {"wd_returned", "wd_raised"}
    /\ UNCHANGED <<runVars, timeout, check_interval, cleanup_when_done, elapsed,
                   polls, final_downloads>>

NextWait ==
    \/ WaitTest
    \/ WaitPoll
    \/ WaitSleep
    \/ WaitFinal
    \/ WaitClean

\* the call is sequential code: while it has a step to take it takes it
SpecWait == InitWait /\ [][NextWait]_vars /\ WF_vars(NextWait)

(***************************************************************************)
(* Properties.                                                             *)
(***************************************************************************)
\* search_track has returned its list for the current track and the locals
\* of the call are still in place
SearchReturned ==
    /\ pc \in {"download", "sleep", "playlists"}
    /\ track # NoTrack
    /\ track.artists_are_str

\* the successful batches of the attempts so far, in attempt order
RECURSIVE PoolOf(_)
PoolOf(log) ==
    IF log = <<>> THEN <<>>
    ELSE PoolOf(SubSeq(log, 1, Len(log) - 1)) \o log[Len(log)].results

KeysOf(results) == {ResultKey(results[k]) : k \in DOMAIN results}

\* an attempt's own batch holds a result at or above the threshold
BatchSufficient(a) ==
    \E k \in DOMAIN a.results :
        a.results[k].search_similarity >= config.sufficient_similarity

\* C1: the list search_track returns never holds two results with the same
\* (user, file_path), whatever the backend answered in the attempts.
C1_NoDuplicateResults ==
    \A j, k \in DOMAIN search_results :
        j # k => ResultKey(search_results[j]) # ResultKey(search_results[k])

\* C1 witness: a search returned two results after a failed attempt and with
\* the same key offered in two different attempts.
C1_Witness ==
    /\ SearchReturned
    /\ Len(search_results) >= 2
    /\ \E k \in DOMAIN attempts : attempts[k].raised
    /\ \E a, b \in DOMAIN attempts :
          /\ a < b
          /\ KeysOf(attempts[a].results) \cap KeysOf(attempts[b].results) # {}

\* C2: one search_track call sends at most max_attempts queries, so none when
\* max_attempts is zero or below.
C2_QueriesWithinMaxAttempts ==
    Len(attempts) <= (IF config.max_attempts > 0 THEN config.max_attempts ELSE 0)

\* C3: no query follows an attempt whose own batch holds a result with
\* similarity >= sufficient_similarity, and a search that returns with
\* queries left has such a result in its last attempt's own batch.
C3_EarlyExit ==
    /\ \A k \in 1..(Len(attempts) - 1) : ~BatchSufficient(attempts[k])
    /\ (SearchReturned /\ Len(attempts) < Len(queries))
          => BatchSufficient(attempts[Len(attempts)])

\* C3 witness: the search stopped at its second attempt with a query left,
\* after a first attempt that brought results below the threshold.
C3_Witness ==
    /\ SearchReturned
    /\ Len(attempts) = 2
    /\ Len(queries) = 3
    /\ attempts[1].results # <<>>
    /\ BatchSufficient(attempts[2])

C5_FirstOccurrenceKept ==
    SearchReturned =>
        LET pool == PoolOf(attempts)
        IN  \A k \in DOMAIN pool :
                LET first == CHOOSE j \in DOMAIN pool :
                                 /\ ResultKey(pool[j]) = ResultKey(pool[k])
                                 /\ \A h \in 1..(j - 1) :
                                        ResultKey(pool[h]) # ResultKey(pool[k])
                IN  /\ Cardinality({j \in DOMAIN search_results :
                            ResultKey(search_results[j]) = ResultKey(pool[k])}) = 1
                    /\ \E j \in DOMAIN search_results : search_results[j] = pool[first]

\* C5 witness: a later attempt offered a key again with a higher similarity.
C5_Witness ==
    /\ SearchReturned
    /\ \E a, b \in DOMAIN attempts :
          /\ a < b
          /\ \E x \in DOMAIN attempts[a].results, y \in DOMAIN attempts[b].results :
                /\ ResultKey(attempts[a].results[x]) = ResultKey(attempts[b].results[y])
                /\ attempts[a].results[x].search_similarity
                      < attempts[b].results[y].search_similarity

\* C6: with min_bitrate set, the result the selector sends the download
\* request for has a known bitrate that is not below min_bitrate.
C6_MinBitrateRespected ==
    \A k \in DOMAIN requests :
        config.min_bitrate # None =>
            /\ requests[k].best_result.bitrate # None
            /\ Val(requests[k].best_result.bitrate) >= Val(config.min_bitrate)

\* a result survives the min_bitrate step of the selector
SurvivesBitrateStep(r) ==
    \/ config.min_bitrate = None
    \/ Val(config.min_bitrate) = 0
    \/ /\ r.bitrate # None
       /\ Val(r.bitrate) # 0
       /\ Val(r.bitrate) >= Val(config.min_bitrate)

\* the selector has run on search_results
SelectorDone == pc # "download" /\ trackLog # <<>>

\* C7 as stated: with require_free_slots and a free-slot result anywhere in
\* the input, the result the selector selects is a free-slot result (read
\* in the claim's favour: nothing is asked when it selects none).
C7_FreeSlotSelected ==
    (/\ SelectorDone
     /\ config.require_free_slots
     /\ \E k \in DOMAIN search_results : search_results[k].has_free_slots
     /\ requests # <<>>)
    => requests[1].best_result.has_free_slots

\* C7 amended: with require_free_slots and a free-slot result among the
\* results that survive the min_bitrate step, the selector selects a result
\* and it is a free-slot result.
C7_FreeSlotSelectedAmongFiltered ==
    (/\ SelectorDone
     /\ config.require_free_slots
     /\ \E k \in DOMAIN search_results :
           /\ search_results[k].has_free_slots
           /\ SurvivesBitrateStep(search_results[k]))
    => /\ requests # <<>>
       /\ requests[1].best_result.has_free_slots

\* C7 witness: a free-slot result was selected although a result without a
\* free slot and with a higher bitrate survived the min_bitrate step too.
C7_Witness ==
    /\ SelectorDone
    /\ config.require_free_slots
    /\ requests # <<>>
    /\ requests[1].best_result.has_free_slots
    /\ \E k \in DOMAIN search_results :
          /\ ~search_results[k].has_free_slots
          /\ SurvivesBitrateStep(search_results[k])
          /\ OrZero(search_results[k].bitrate)
                > OrZero(requests[1].best_result.bitrate)

\* C8: a track whose results all fail min_bitrate, so that the selector
\* returns nothing, increments failed_searches and neither api_errors nor
\* successful_downloads.
C8_NothingSelectedIsFailedSearch ==
    \A k \in DOMAIN trackLog :
        trackLog[k].selector = "nothing" =>
            /\ "failed_searches" \in trackLog[k].counters
            /\ "api_errors" \notin trackLog[k].counters
            /\ "successful_downloads" \notin trackLog[k].counters

C10_CountersPartitionTracks ==
    (pc = "done" /\ ~interrupted /\ download) =>
        /\ stats.total_tracks = expected
        /\ \A k \in DOMAIN trackLog :
              LET e == trackLog[k]
              IN  /\ Cardinality(e.counters \cap {"successful_downloads",
                                                  "failed_searches",
                                                  "api_errors"}) = 1
                  /\ ("failed_searches" \in e.counters) <=> e.empty
                  /\ ("api_errors" \in e.counters) <=> e.raised
                  /\ ("successful_downloads" \in e.counters) <=> e.enqueued

\* C11: a string response that holds the too-many-simultaneous-searches
\* message makes the search fail with an error, and a string response that
\* holds the no-results message (and not the other one) makes it return an
\* empty list without an error.
C11_RejectionRaisedNoResultsEmpty ==
    pc = "search" =>
        \A k \in DOMAIN attempts :
            attempts[k].resp.tag = "string" =>
                /\ Contains(attempts[k].resp.text, TooManySearches)
                      => attempts[k].raised
                /\ (/\ Contains(attempts[k].resp.text, NoResultsFound)
                    /\ ~Contains(attempts[k].resp.text, TooManySearches))
                      => (~attempts[k].raised /\ attempts[k].results = <<>>)

\* C11 witness: a call was answered with the too-many-searches message inside
\* a longer text and failed.
C11_Witness ==
    /\ pc = "search"
    /\ attempts # <<>>
    /\ attempts[1].resp.tag = "string"
    /\ attempts[1].resp.text # TooManySearches
    /\ Contains(attempts[1].resp.text, TooManySearches)
    /\ attempts[1].raised

\* search_track has built its query list for a well-formed track, and
\* max_attempts is large enough for the slice to keep every query
QueriesUntruncated ==
    /\ track # NoTrack
    /\ track.artists_are_str
    /\ pc # "track"
    /\ config.max_attempts >= 1
    /\ config.max_attempts >= Len(config.fallback_strategies)

ArtistTags ==
    {"artist title", "\"artist\" \"title\"", "title artist",
     "\"artist\" with title includes"}

\* the artists joined by ", "
RECURSIVE JoinedArtists(_)
JoinedArtists(artists) ==
    IF Len(artists) = 1 THEN artists[1]
    ELSE artists[1] \o <<",", " ">> \o JoinedArtists(Tail(artists))

\* the query the strategy table gives for a tag and a track with artists
TableQuery(tag, t) ==
    LET a == JoinedArtists(t.artists)
        q == <<"\"">>
    IN  CASE tag = "artist title" ->
                [is_tuple |-> FALSE, query |-> a \o <<" ">> \o t.title,
                 custom_includes |-> <<>>]
          [] tag = "\"artist\" \"title\"" ->
                [is_tuple |-> FALSE,
                 query |-> q \o a \o q \o <<" ">> \o q \o t.title \o q,
                 custom_includes |-> <<>>]
          [] tag = "title artist" ->
                [is_tuple |-> FALSE, query |-> t.title \o <<" ">> \o a,
                 custom_includes |-> <<>>]
          [] tag = "\"artist\" with title includes" ->
                [is_tuple |-> TRUE, query |-> q \o a \o q,
                 custom_includes |-> <<t.title>>]
          [] tag = "title" ->
                [is_tuple |-> FALSE, query |-> t.title, custom_includes |-> <<>>]

C13_TitleFallback ==
    QueriesUntruncated =>
        LET titles == SelectSeq(config.fallback_strategies, LAMBDA s : s = "title")
            emitting == SelectSeq(config.fallback_strategies,
                            LAMBDA s : \/ s = "title"
                                       \/ s \in ArtistTags /\ track.artists # <<>>)
            plain == [is_tuple |-> FALSE, query |-> track.title,
                      custom_includes |-> <<>>]
        IN  /\ queries # <<>>
            /\ (track.artists = <<>> /\ titles # <<>>) =>
                  /\ Len(queries) = Len(titles)
                  /\ \A k \in DOMAIN queries : queries[k] = plain
            /\ emitting = <<>> => queries = <<plain>>

\* C13 witness: a track without artists under the default strategies, which
\* all need artists, is searched by its title.
C13_Witness ==
    /\ QueriesUntruncated
    /\ track.artists = <<>>
    /\ config.fallback_strategies = DefaultConfig.fallback_strategies
    /\ Len(queries) = 1
    /\ attempts # <<>>
    /\ attempts[1].query_info.query = track.title

\* a search_and_filter call that was answered with a list of candidates, as a
\* plain list or in a {results: [...]} envelope, and was not given a limit
AnsweredWithCandidates(c) ==
    /\ c.resp.tag \in {"list", "dict"}
    /\ c.resp.tag = "dict" => c.resp.has_results
    /\ c.limit = None

\* file_name + " " + virtual_path, compared case-insensitively
NameAndPath(r) == Lower(r.file_name \o <<" ">> \o r.file_path)

\* a candidate satisfies every predicate the policy configures; the bitrate
\* filter that search_and_filter re-applies is one of them and is read as
\* "a known bitrate is not below min_bitrate"
MeetsPolicy(r) ==
    /\ (config.min_bitrate # None /\ r.bitrate # None)
          => Val(r.bitrate) >= Val(config.min_bitrate)
    /\ config.require_free_slots => r.has_free_slots
    /\ config.max_file_size_mb # None
          => r.file_size <= Val(config.max_file_size_mb) * MiB
    /\ r.search_similarity >= config.min_similarity
    /\ config.allowed_extensions # <<>>
          => \E k \in DOMAIN config.allowed_extensions :
                 Lower(config.allowed_extensions[k]) = Lower(r.file_extension)
    /\ \A k \in DOMAIN config.require_terms :
          Contains(NameAndPath(r), Lower(config.require_terms[k]))
    /\ \A k \in DOMAIN config.exclude_terms :
          ~Contains(NameAndPath(r), Lower(config.exclude_terms[k]))

\* C14: whatever the shape of the backend's answer, the set search_and_filter
\* returns is exactly the set of the backend's candidates that satisfy every
\* configured predicate: free slot when required, file size within
\* max_file_size_mb when set, similarity, allowed extension, required and
\* excluded text (and the re-applied bitrate filter).
C14_ExactlyTheCandidatesMeetingPolicy ==
    pc = "search" =>
        \A k \in DOMAIN attempts :
            AnsweredWithCandidates(attempts[k]) =>
                /\ ~attempts[k].raised
                /\ {attempts[k].results[j] : j \in DOMAIN attempts[k].results}
                      = {r \in {attempts[k].resp.items[j] :
                                    j \in DOMAIN attempts[k].resp.items} :
                            MeetsPolicy(r)}

C16_UnavailableIsFatalToRun ==
    [][(download /\ unavailable) =>
          /\ ~(Len(attempts') > Len(attempts))
          /\ ~(Len(requests') > Len(requests))]_vars

\* the TrackSearcher.download_best_result call is under way or over
TrackDownloadCalled == pc \in {"dl_attempt", "dl_select", "dl_none",
                               "dl_returned", "dl_raised"}

\* the answer of the health endpoint is status 200 with message Hello World
Healthy(answer) ==
    /\ answer.tag = "response"
    /\ answer.status_code = 200
    /\ answer.message = "Hello World"

C18_OneRequestForTheChosenResult ==
    SelectorDone =>
        IF \E k \in DOMAIN search_results : SurvivesBitrateStep(search_results[k])
        THEN /\ Len(requests) = 1
             /\ trackLog[1].selector = "chosen"
             /\ \E k \in DOMAIN search_results :
                   /\ SurvivesBitrateStep(search_results[k])
                   /\ requests[1].best_result = search_results[k]
             /\ requests[1].download_data
                   = [file_owner |-> requests[1].best_result.user,
                      file_virtual_path |-> requests[1].best_result.file_path,
                      file_size |-> requests[1].best_result.file_size,
                      file_attributes |-> requests[1].best_result.file_attributes]
        ELSE /\ requests = <<>>
             /\ trackLog[1].selector = "nothing"

\* C18 witness: of two results that remained, the one with attributes was
\* chosen and its request carries them.
C18_Witness ==
    /\ SelectorDone
    /\ Len(search_results) = 2
    /\ search_results[1] # search_results[2]
    /\ \A k \in DOMAIN search_results : SurvivesBitrateStep(search_results[k])
    /\ Len(requests) = 1
    /\ requests[1].best_result = search_results[2]
    /\ requests[1].download_data.file_attributes = <<"a">>

\* C19: in a run with download mode disabled no download request is sent,
\* the selector is never called and successful_downloads stays untouched,
\* whatever the searches return.
C19_NoDownloadWhenDisabled ==
    ~download =>
        /\ requests = <<>>
        /\ pc \notin {"check", "download"}
        /\ stats.successful_downloads = 0
        /\ \A k \in DOMAIN trackLog :
              /\ trackLog[k].selector = "not called"
              /\ ~trackLog[k].enqueued
              /\ "successful_downloads" \notin trackLog[k].counters

\* C19 witness: a run without download mode ended after a track whose search
\* found results and a track whose search found none.
C19_Witness ==
    /\ ~download
    /\ pc = "done"
    /\ ~interrupted
    /\ \E k \in DOMAIN trackLog : ~trackLog[k].empty /\ ~trackLog[k].raised
    /\ \E k \in DOMAIN trackLog : trackLog[k].empty

\* C20: in the track loop of a playlist of n tracks a delay happens between
\* two consecutive tracks only: i - 1 delays have happened while track i is
\* processed, a delay is awaited only when a track follows, and the loop
\* ends after max(n - 1, 0) delays.
C20_DelayOnlyBetweenTracks ==
    /\ pc \in {"track", "attempt", "download", "pd_track"} => delays = i - 1
    /\ pc \in {"sleep", "pd_sleep"} => (i < nTracks /\ delays = i - 1)
    /\ ((pc = "playlists" /\ track # NoTrack) \/ pc = "pd_done")
          => delays = (IF nTracks > 0 THEN nTracks - 1 ELSE 0)

\* the position in pool of the first result with the key of r
FirstIndex(pool, r) ==
    CHOOSE j \in DOMAIN pool :
        /\ ResultKey(pool[j]) = ResultKey(r)
        /\ \A h \in 1..(j - 1) : ResultKey(pool[h]) # ResultKey(r)

\* C21: the list search_track returns is ordered by non-increasing
\* similarity, and two results of equal similarity stand in the order in
\* which their keys first appear in the accumulated pool.
C21_SortedBySimilarityStable ==
    SearchReturned =>
        \A j, k \in DOMAIN search_results :
            j < k =>
                /\ search_results[j].search_similarity
                      >= search_results[k].search_similarity
                /\ search_results[j].search_similarity
                      = search_results[k].search_similarity
                   => FirstIndex(PoolOf(attempts), search_results[j])
                         < FirstIndex(PoolOf(attempts), search_results[k])

\* C21 witness: two results of equal similarity were returned in pool order,
\* the second user's result first, after an attempt that found nothing.
C21_Witness ==
    /\ SearchReturned
    /\ Len(attempts) = 2
    /\ attempts[1].results = <<>>
    /\ Len(search_results) = 2
    /\ search_results[1].search_similarity = search_results[2].search_similarity
    /\ search_results[1].user = U2
    /\ search_results[2].user = U1
    /\ search_results = attempts[2].results

\* C22: a result with an unknown bitrate fails the min_bitrate filter of
\* search_and_filter whenever min_bitrate is set, so no such result is
\* returned; and with min_bitrate not set an unknown bitrate alone excludes
\* no result: a candidate without a bitrate that meets the other predicates
\* is returned.
C22_UnknownBitrateFailsMinBitrate ==
    pc = "search" =>
        \A k \in DOMAIN attempts :
            AnsweredWithCandidates(attempts[k]) =>
                /\ config.min_bitrate # None =>
                      \A j \in DOMAIN attempts[k].results :
                          attempts[k].results[j].bitrate # None
                /\ config.min_bitrate = None =>
                      \A j \in DOMAIN attempts[k].resp.items :
                          LET r == attempts[k].resp.items[j]
                          IN  (r.bitrate = None /\ MeetsPolicy(r)
                                  /\ config.max_file_size_mb # Some(0))
                                 => \E h \in DOMAIN attempts[k].results :
                                        attempts[k].results[h] = r

\* a result of search_results is among those the selector chooses from: it
\* survives the min_bitrate step and, when free slots are preferred and a
\* survivor has one, it has a free slot
Remains(r) ==
    /\ SurvivesBitrateStep(r)
    /\ (/\ config.require_free_slots
        /\ \E k \in DOMAIN search_results :
              /\ SurvivesBitrateStep(search_results[k])
              /\ search_results[k].has_free_slots)
          => r.has_free_slots

\* C23: the result the selector chooses is one of the remaining candidates,
\* no remaining candidate has a higher bitrate (an unknown bitrate counting
\* as 0), and none with an equal bitrate has a higher similarity.
C23_ChosenIsLexicographicMaximum ==
    (SelectorDone /\ requests # <<>>) =>
        LET best == requests[1].best_result
        IN  /\ \E k \in DOMAIN search_results :
                  search_results[k] = best /\ Remains(best)
            /\ \A k \in DOMAIN search_results :
                  Remains(search_results[k]) =>
                      /\ OrZero(search_results[k].bitrate) <= OrZero(best.bitrate)
                      /\ OrZero(search_results[k].bitrate) = OrZero(best.bitrate)
                            => search_results[k].search_similarity
                                  <= best.search_similarity

\* C23 witness: of two remaining candidates the one with the higher bitrate
\* was chosen although the other has the higher similarity.
C23_Witness ==
    /\ SelectorDone
    /\ requests # <<>>
    /\ Len(search_results) = 2
    /\ \A k \in DOMAIN search_results : Remains(search_results[k])
    /\ \E k \in DOMAIN search_results :
          /\ OrZero(search_results[k].bitrate)
                < OrZero(requests[1].best_result.bitrate)
          /\ search_results[k].search_similarity
                > requests[1].best_result.search_similarity

\* free slots are required, results survive the min_bitrate step and none of
\* the survivors has a free slot
NoFreeSlotSurvivor ==
    /\ config.require_free_slots
    /\ \E k \in DOMAIN search_results : SurvivesBitrateStep(search_results[k])
    /\ \A k \in DOMAIN search_results :
          SurvivesBitrateStep(search_results[k]) => ~search_results[k].has_free_slots

\* C24: with require_free_slots and a non-empty bitrate-filtered set without
\* any free-slot result, the selector does not return nothing: it sends a
\* request for a result of the bitrate-filtered set, one that no result of
\* that whole set beats on (bitrate or 0, similarity).
C24_FallsBackToWholeFilteredSet ==
    (SelectorDone /\ NoFreeSlotSurvivor) =>
        /\ trackLog[1].selector = "chosen"
        /\ Len(requests) = 1
        /\ SurvivesBitrateStep(requests[1].best_result)
        /\ ~requests[1].best_result.has_free_slots
        /\ \A k \in DOMAIN search_results :
              SurvivesBitrateStep(search_results[k]) =>
                  ~BestKeyGreater(search_results[k], requests[1].best_result)

\* C24 witness: min_bitrate dropped the only free-slot result, and of the two
\* survivors without a free slot the second was chosen.
C24_Witness ==
    /\ SelectorDone
    /\ NoFreeSlotSurvivor
    /\ Len(search_results) = 2
    /\ search_results[1].has_free_slots
    /\ ~SurvivesBitrateStep(search_results[1])
    /\ Len(requests) = 1
    /\ requests[1].best_result = search_results[2]

\* the extra required substrings the strategy table gives a query: the track
\* title for the quoted-artist query with the title in the includes, nothing
\* for a plain string
ExtraIncludes(query_info) ==
    IF query_info.is_tuple THEN <<track.title>> ELSE <<>>

\* C25: in every attempt the includes_text handed to search_and_filter is
\* require_terms followed by the query's extra required substrings, and the
\* configuration's require_terms is in every attempt and after the call what
\* it was before the first attempt.
C25_IncludesTextLeavesRequireTerms ==
    attempts # <<>> =>
        /\ \A k \in DOMAIN attempts :
              /\ attempts[k].require_terms = attempts[1].require_terms
              /\ attempts[k].includes_text
                    = attempts[1].require_terms \o ExtraIncludes(attempts[k].query_info)
        /\ config.require_terms = attempts[1].require_terms

\* C25 witness: with a required term configured, the quoted-artist query was
\* searched with the title added and the plain title query after it with the
\* required term alone.
C25_Witness ==
    /\ SearchReturned
    /\ config.require_terms # <<>>
    /\ Len(attempts) = 2
    /\ attempts[1].query_info.is_tuple
    /\ attempts[1].includes_text = config.require_terms \o <<track.title>>
    /\ attempts[1].results # <<>>
    /\ ~attempts[2].query_info.is_tuple
    /\ attempts[2].includes_text = config.require_terms

\* the results of a call answered with candidates after the text filters of
\* search and the client-side filters, before the sort
FilteredOf(c) ==
    SelectSeq(TextFilter(c.resp.items, config.require_terms, config.exclude_terms),
              LAMBDA r : PassesFilters(r, config.min_bitrate,
                                       config.max_file_size_mb,
                                       config.min_similarity,
                                       config.require_free_slots,
                                       config.allowed_extensions))

\* a comes no later than b in the order of the sort key: bitrate (unknown
\* as 0), file size and similarity descending, owner and file name ascending
InKeyOrder(a, b, sort_by) ==
    CASE sort_by = "bitrate" -> OrZero(a.bitrate) >= OrZero(b.bitrate)
      [] sort_by = "file_size" -> a.file_size >= b.file_size
      [] sort_by = "search_similarity" -> a.search_similarity >= b.search_similarity
      [] sort_by = "user" -> ~StrLess(b.user, a.user)
      [] sort_by = "file_name" -> ~StrLess(b.file_name, a.file_name)

\* C26: the output of search_and_filter is in the order of the selected key,
\* and when a limit is given it is the first `limit` elements of the sorted
\* filtered results, so it never has more than `limit` elements, for every
\* limit including 0.
C26_SortedThenLimited ==
    pc = "search" =>
        \A k \in DOMAIN attempts :
            LET c == attempts[k]
            IN  (c.resp.tag \in {"list", "dict"} /\ ~c.raised) =>
                    /\ \A j, h \in DOMAIN c.results :
                          j < h => InKeyOrder(c.results[j], c.results[h], c.sort_by)
                    /\ c.limit # None =>
                          /\ Len(c.results) <= Val(c.limit)
                          /\ c.resp.tag = "list" =>
                                LET sorted == SortBy(FilteredOf(c), c.sort_by)
                                IN  c.results = SubSeq(sorted, 1,
                                        IF Val(c.limit) < Len(sorted)
                                        THEN Val(c.limit) ELSE Len(sorted))

\* the answer of a poll lists a download that is not finished, cancelled or
\* failed
ShowsActive(answer) ==
    /\ answer.tag = "list"
    /\ \E k \in DOMAIN answer.items :
          answer.items[k].status \notin {"Finished", "Cancelled", "Failed"}

\* C27: wait_for_downloads terminates; every poll happens before the
\* timeout and at least check_interval after the poll before it; a poll that
\* shows no active download is the last one; the loop is left only after
\* such a poll or with the timeout reached; while the loop runs no final
\* list is fetched and no clean request is sent; and a call that returns has
\* fetched the final list and sent exactly one clean request when
\* cleanup_when_done and none otherwise.
C27_WaitTerminatesCleanAfterLoop ==
    /\ [](/\ \A k \in DOMAIN polls : polls[k].at < timeout
          /\ \A k \in 1..(Len(polls) - 1) :
                /\ ShowsActive(polls[k].answer)
                /\ polls[k + 1].at - polls[k].at >= check_interval
          /\ (pc = "wd_sleep" \/ (pc \in {"wd_test", "wd_poll"} /\ polls # <<>>))
                => ShowsActive(polls[Len(polls)].answer)
          /\ pc = "wd_poll" => elapsed < timeout
          /\ pc \in {"wd_test", "wd_poll", "wd_sleep"}
                => (cleans = 0 /\ final_downloads = <<>>)
          /\ pc \in {"wd_final", "wd_clean", "wd_returned"}
                => \/ elapsed >= timeout
                   \/ polls # <<>> /\ ~ShowsActive(polls[Len(polls)].answer)
          /\ cleans <= 1
          /\ cleans = 1 => (cleanup_when_done /\ final_downloads # <<>>)
          /\ pc = "wd_returned"
                => /\ final_downloads # <<>>
                   /\ cleans = (IF cleanup_when_done THEN 1 ELSE 0))
    /\ <>(pc \in {"wd_returned", "wd_raised"})

\* C27 witness: the second poll, before the timeout, listed finished
\* downloads only; the call then fetched the final list, sent one clean
\* request and returned.
C27_Witness ==
    /\ pc = "wd_returned"
    /\ Len(polls) = 2
    /\ polls[2].at < timeout
    /\ polls[2].answer.items # <<>>
    /\ polls[2].active = <<>>
    /\ cleans = 1

\* C28: a KeyboardInterrupt that arrives while a playlist of the run is
\* processed ends the iteration: the counters and the log of finished tracks
\* are what they were when the signal arrived, the final summary is printed,
\* and the run takes no further step, so no query and no download request
\* follows for a later track or a later playlist.
C28_InterruptStopsRun ==
    /\ [](interrupted =>
            /\ pc = "done"
            /\ summary
            /\ stats.total_tracks = Len(trackLog)
            /\ \A c \in {"successful_downloads", "failed_searches", "api_errors"} :
                  stats[c] = Cardinality({k \in DOMAIN trackLog :
                                              c \in trackLog[k].counters}))
    /\ [][(interrupted' /\ ~interrupted) =>
              (stats' = stats /\ trackLog' = trackLog)]_vars
    /\ [][~interrupted]_vars

\* C28 witness: a download-mode run over two playlists was interrupted in its
\* first playlist after one track was finished and before the last track of
\* the playlist was, and ended with the summary.
C28_Witness ==
    /\ interrupted
    /\ download
    /\ nPlaylists = 2
    /\ plIdx = 1
    /\ Len(trackLog) = 1
    /\ stats.total_tracks = 1
    /\ expected = 2
    /\ summary
    /\ pc = "done"

\* C29: an attempt answered with an unexpected payload shape returns an
\* empty list and raises nothing; the orchestrator does not fail and, while
\* queries are left, goes on to the next one.
C29_UnexpectedShapeIsZeroResults ==
    /\ \A k \in DOMAIN attempts :
          attempts[k].unexpected =>
              (~attempts[k].raised /\ attempts[k].results = <<>>)
    /\ (/\ attempts # <<>>
        /\ attempts[Len(attempts)].unexpected
        /\ Len(attempts) < Len(queries))
          => (pc = "attempt" /\ attempt = Len(attempts) + 1)
    /\ (SearchReturned /\ \E k \in DOMAIN attempts : attempts[k].unexpected)
          => ~trackLog[Len(trackLog)].raised

\* C29 witness: the first attempt was answered with an unexpected shape, the
\* second query was sent and brought the results the search returned.
C29_Witness ==
    /\ SearchReturned
    /\ Len(attempts) = 2
    /\ attempts[1].unexpected
    /\ attempts[2].results # <<>>
    /\ search_results = attempts[2].results

\* C30: in download mode the result the batch driver reports as queued for a
\* track is the result the selector chose and sent the download request for:
\* same owner and same virtual path.
C30_ReportedIsChosen ==
    (download /\ trackLog # <<>> /\ trackLog[Len(trackLog)].enqueued) =>
        \A k \in DOMAIN requests :
            /\ requests[k].reported.user = requests[k].best_result.user
            /\ requests[k].reported.file_path = requests[k].best_result.file_path
            /\ requests[k].download_data.file_owner = requests[k].reported.user
            /\ requests[k].download_data.file_virtual_path
                  = requests[k].reported.file_path

====
